---- MODULE Spec2Model ----
(***************************************************************************)
(* Model of backend/scripts/timetable_optimizer.py: one run of main(),     *)
(* which validates the input document, builds the CP-SAT model of          *)
(* TimetableOptimizer (variables, basic constraints, C1..C8, objective),   *)
(* asks the solver for an assignment, extracts the timetable and writes    *)
(* one JSON document.  The solver is the external collaborator: it returns *)
(* OPTIMAL with an objective-minimal satisfying assignment, FEASIBLE with  *)
(* any satisfying assignment, INFEASIBLE when there is none, or UNKNOWN.   *)
(***************************************************************************)
EXTENDS Integers, Sequences, FiniteSets, TLC

VARIABLES
    input,                  \* sys.argv as seen by main(): argc, json validity, document
    pc,                     \* position of main(): start, built, solved, done
    MORNING_PERIODS_LIST,   \* self.MORNING_PERIODS_LIST after __init__
    EVENING_PERIODS_LIST,   \* self.EVENING_PERIODS_LIST after __init__
    schedule_vars,          \* solver values of schedule_vars[subject][day][period]
    room_assignment,        \* solver values of room_assignment[subject][day][period][room]
    solver_status,          \* stats['solver_status']
    objective_value,        \* solver.ObjectiveValue()
    result,                 \* the dict main() is about to print
    stdout,                 \* documents written to the primary output
    exit_code               \* argument of sys.exit, -1 while running

vars == <<input, pc, MORNING_PERIODS_LIST, EVENING_PERIODS_LIST, schedule_vars,
          room_assignment, solver_status, objective_value, result, stdout, exit_code>>

(***************************************************************************)
(* Bounds of the explored inputs.                                          *)
(***************************************************************************)
NumDays == 2
NumPeriods == 4
MaxSlack == 1

(***************************************************************************)
(* Program constants.                                                      *)
(***************************************************************************)
DefaultMaxTeacherSessions == 2
DefaultLabDuration == 3
SessionHalfCap == 2
BalanceThreshold == 4
TimeoutSeconds == 60
DefaultMorning == <<0, 1, 2, 3>>
DefaultEvening == <<4, 5, 6, 7>>

(***************************************************************************)
(* Generic helpers.                                                        *)
(***************************************************************************)
Max2(a, b) == IF a >= b THEN a ELSE b

Min2(a, b) == IF a <= b THEN a ELSE b

Range(s) == {s[i] : i \in DOMAIN s}

RECURSIVE SumTo(_, _)
\* s[1] + ... + s[n]
SumTo(s, n) == IF n = 0 THEN 0 ELSE s[n] + SumTo(s, n - 1)

\* Python's sum() on a list
SumSeq(s) == SumTo(s, Len(s))

RECURSIVE Insert(_, _)
Insert(v, s) ==
    IF s = <<>> THEN <<v>>
    ELSE IF v < Head(s) THEN <<v>> \o s
    ELSE <<Head(s)>> \o Insert(v, Tail(s))

\* the list as given, not sorted
AsGiven(s) == s

RECURSIVE Sorted(_)
\* Python's sorted() on a list of integers (duplicates are kept)
Sorted(s) == IF s = <<>> THEN <<>> ELSE Insert(s[Len(s)], Sorted(SubSeq(s, 1, Len(s) - 1)))

\* dict.get(key, default) on a record
Get(d, key, default) == IF key \in DOMAIN d THEN d[key] ELSE default

\* list(range(lo, hi))
RangeList(lo, hi) == [i \in 1..Max2(0, hi - lo) |-> lo + i - 1]

(***************************************************************************)
(* The input document and what __init__ reads from it.                     *)
(***************************************************************************)
Data == input.data

Subjects == Data.subjects

Rooms == Data.rooms

Constraints == Data.constraints

DAYS == Constraints.days_per_week

PERIODS == Constraints.periods_per_day

Days == 0..(DAYS - 1)

Periods == 0..(PERIODS - 1)

SubjectIds == {Subjects[i].id : i \in DOMAIN Subjects}

RoomIds == {Rooms[j].id : j \in DOMAIN Rooms}

\* isinstance(raw, int) / isinstance(raw, (list, tuple)): a raw value is a
\* tagged record, [int |-> n] or [list |-> <<...>>]
IsInt(raw) == "int" \in DOMAIN raw

IsList(raw) == "list" \in DOMAIN raw

InBounds(s, periods) == SelectSeq(s, LAMBDA p : 0 <= p /\ p < periods)

RawMorning(c) == Get(c, "morning_periods", [list |-> DefaultMorning])

RawEvening(c) == Get(c, "evening_periods", [list |-> DefaultEvening])

\* MORNING_PERIODS_LIST before the bounds filter
MorningUnfiltered(c) ==
    IF IsInt(RawMorning(c)) /\ IsInt(RawEvening(c))
    THEN RangeList(0, Min2(c.periods_per_day, Max2(0, RawMorning(c).int)))
    ELSE IF IsList(RawMorning(c)) THEN RawMorning(c).list ELSE DefaultMorning

\* EVENING_PERIODS_LIST before the bounds filter
EveningUnfiltered(c) ==
    IF IsInt(RawMorning(c)) /\ IsInt(RawEvening(c))
    THEN RangeList(Len(MorningUnfiltered(c)),
                   Min2(c.periods_per_day,
                        Len(MorningUnfiltered(c)) + Max2(0, RawEvening(c).int)))
    ELSE IF IsList(RawEvening(c)) THEN RawEvening(c).list ELSE DefaultEvening

NormalizeMorning(c) == Sorted(InBounds(MorningUnfiltered(c), c.periods_per_day))

NormalizeEvening(c) == Sorted(InBounds(EveningUnfiltered(c), c.periods_per_day))

(***************************************************************************)
(* create_variables: which room-assignment variables exist.                *)
(***************************************************************************)
\* a room-assignment variable for every (subject, room) pair
AnyRoom(subject, room) == TRUE

Compatible(subject, room) ==
    \/ subject.is_lab /\ room.type = "laboratory"
    \/ ~subject.is_lab /\ room.type = "classroom"

\* keys of room_assignment[subject_id][day][period], in insertion order
RoomKeys(subject) ==
    LET ix == SelectSeq([j \in DOMAIN Rooms |-> j],
                        LAMBDA j : Compatible(subject, Rooms[j]))
    IN [k \in DOMAIN ix |-> Rooms[ix[k]].id]

(***************************************************************************)
(* Values of the decision variables.  A day column col maps each subject   *)
(* id to the set of periods whose schedule variable is 1 on that day; x    *)
(* maps each day to its column; r maps <<subject id, day, period>> to the  *)
(* set of room ids whose room-assignment variable is 1.                    *)
(***************************************************************************)
Var(col, sid, p) == IF p \in col[sid] THEN 1 ELSE 0

RVar(r, sid, d, p, rid) == IF rid \in r[<<sid, d, p>>] THEN 1 ELSE 0

Triples == SubjectIds \X Days \X Periods

(***************************************************************************)
(* add_basic_constraints                                                   *)
(***************************************************************************)
\* sum(total_periods) == periods_per_week
WeeklyTotal(x) ==
    \A i \in DOMAIN Subjects :
        SumSeq([k \in 1..DAYS |-> Cardinality(x[k - 1][Subjects[i].id])])
            = Subjects[i].max_periods_per_week

\* the daily sum bounded by the weekly count
DailyMaxByWeek(col) ==
    \A i \in DOMAIN Subjects :
        Cardinality(col[Subjects[i].id]) <= Subjects[i].max_periods_per_week

\* sum(daily_periods) <= max_per_day
DailyMax(col) ==
    \A i \in DOMAIN Subjects :
        Cardinality(col[Subjects[i].id]) <= Subjects[i].max_periods_per_day

\* sum(room_assignments) == schedule variable, added only when the triple has
\* at least one room-assignment variable
RoomConsistency(x, r) ==
    \A i \in DOMAIN Subjects :
        \A keys \in {RoomKeys(Subjects[i])} :
            keys # <<>> =>
                \A d \in Days : \A p \in Periods :
                    SumSeq([k \in DOMAIN keys |-> RVar(r, Subjects[i].id, d, p, keys[k])])
                        = Var(x[d], Subjects[i].id, p)

(***************************************************************************)
(* C1 .. C8                                                                *)
(***************************************************************************)
\* C1: at most one subject in a room at a time
C1_RoomConflicts(r) ==
    \A j \in DOMAIN Rooms :
        \A users \in {SelectSeq([i \in DOMAIN Subjects |-> i],
                        LAMBDA i : Rooms[j].id \in Range(RoomKeys(Subjects[i])))} :
            Len(users) > 1 =>
                \A d \in Days : \A p \in Periods :
                    SumSeq([k \in DOMAIN users |->
                                RVar(r, Subjects[users[k]].id, d, p, Rooms[j].id)]) <= 1

\* C2: at most 2 morning and 2 evening periods a day for subjects with >= 4 a week
C2_SessionSeparation(col) ==
    \A i \in DOMAIN Subjects :
        Subjects[i].max_periods_per_week >= BalanceThreshold =>
            /\ MORNING_PERIODS_LIST # <<>> =>
                  SumSeq([k \in DOMAIN MORNING_PERIODS_LIST |->
                      Var(col, Subjects[i].id, MORNING_PERIODS_LIST[k])]) <= SessionHalfCap
            /\ EVENING_PERIODS_LIST # <<>> =>
                  SumSeq([k \in DOMAIN EVENING_PERIODS_LIST |->
                      Var(col, Subjects[i].id, EVENING_PERIODS_LIST[k])]) <= SessionHalfCap

TeacherIds == {Subjects[i].teacher_id : i \in DOMAIN Subjects}

\* teacher_subjects[teacher_id], as indices into the subject list
TeacherSubjects(t) ==
    SelectSeq([i \in DOMAIN Subjects |-> i], LAMBDA i : Subjects[i].teacher_id = t)

MaxSessionsPerDay == Get(Constraints, "max_teacher_sessions_per_day", DefaultMaxTeacherSessions)

\* the cap applied to each subject on its own
C3_PerSubject(col) ==
    \A i \in DOMAIN Subjects :
        Cardinality(col[Subjects[i].id]) <= MaxSessionsPerDay

\* C3: each teacher has at most max_sessions_per_day scheduled periods a day
C3_TeacherSessions(col) ==
    \A t \in TeacherIds :
        SumSeq([k \in DOMAIN TeacherSubjects(t) |->
                    Cardinality(col[Subjects[TeacherSubjects(t)[k]].id])])
            <= MaxSessionsPerDay

\* the lab rule without its windows: only the isolation inequalities
C4_IsolationOnly(col) ==
    Get(Constraints, "enforce_lab_continuity", TRUE) =>
        \A i \in DOMAIN Subjects :
            Subjects[i].is_lab =>
                \A period \in 1..(PERIODS - 2) :
                    Var(col, Subjects[i].id, period - 1) + Var(col, Subjects[i].id, period + 1)
                        >= Var(col, Subjects[i].id, period)

\* C4: window inequalities and the interior no-isolated-period rule for labs
C4_LabContinuity(col) ==
    Get(Constraints, "enforce_lab_continuity", TRUE) =>
        LET lab_duration == Get(Constraints, "lab_duration", DefaultLabDuration) IN
        \A i \in DOMAIN Subjects :
            Subjects[i].is_lab =>
                LET sid == Subjects[i].id IN
                /\ \A start_period \in 0..(PERIODS - lab_duration) :
                       \A period_offset \in 1..(lab_duration - 1) :
                           Var(col, sid, start_period + period_offset)
                               >= Var(col, sid, start_period)
                /\ \A period \in 1..(PERIODS - 2) :
                       Var(col, sid, period - 1) + Var(col, sid, period + 1)
                           >= Var(col, sid, period)

\* C5: a teacher with several subjects teaches at most one of them per slot
C5_TeacherConflicts(col) ==
    \A t \in TeacherIds :
        Len(TeacherSubjects(t)) > 1 =>
            \A p \in Periods :
                SumSeq([k \in DOMAIN TeacherSubjects(t) |->
                            Var(col, Subjects[TeacherSubjects(t)[k]].id, p)]) <= 1

\* C6: no lab in the first morning / first evening period
C6_NoLabFirstPeriod(col) ==
    Get(Constraints, "no_lab_first_period", TRUE) =>
        \A i \in DOMAIN Subjects :
            Subjects[i].is_lab =>
                /\ Len(MORNING_PERIODS_LIST) > 0 =>
                       Var(col, Subjects[i].id, MORNING_PERIODS_LIST[1]) = 0
                /\ Len(EVENING_PERIODS_LIST) > 0 =>
                       Var(col, Subjects[i].id, EVENING_PERIODS_LIST[1]) = 0

\* C7: two lab subjects never hold the same laboratory at the same time
C7_NoLabClashes(r) ==
    \A i1 \in DOMAIN Subjects : \A i2 \in DOMAIN Subjects :
        (Subjects[i1].is_lab /\ Subjects[i2].is_lab /\ Subjects[i1].id < Subjects[i2].id) =>
            \A j \in DOMAIN Rooms :
                (/\ Rooms[j].type = "laboratory"
                 /\ Rooms[j].id \in Range(RoomKeys(Subjects[i1]))
                 /\ Rooms[j].id \in Range(RoomKeys(Subjects[i2]))) =>
                    \A d \in Days : \A p \in Periods :
                        RVar(r, Subjects[i1].id, d, p, Rooms[j].id)
                            + RVar(r, Subjects[i2].id, d, p, Rooms[j].id) <= 1

\* the slot rule added only from three subjects on
C8_FromThreeSubjects(col) ==
    \A p \in Periods :
        Len(Subjects) > 2 =>
            SumSeq([i \in DOMAIN Subjects |-> Var(col, Subjects[i].id, p)]) <= 1

\* no slot rule at all
C8_Absent(col) == TRUE

\* C8: at most one subject of the department per slot
C8_SingleSubjectPerSlot(col) ==
    \A p \in Periods :
        Len(Subjects) > 1 =>
            SumSeq([i \in DOMAIN Subjects |-> Var(col, Subjects[i].id, p)]) <= 1

(***************************************************************************)
(* add_optimization_objectives                                             *)
(***************************************************************************)
\* gap variables on every period of the day, the first and last included
EdgeGaps(col) ==
    {<<i, p>> \in (DOMAIN Subjects) \X Periods :
        Var(col, Subjects[i].id, p)
            - (IF p - 1 \in Periods THEN Var(col, Subjects[i].id, p - 1) ELSE 0)
            - (IF p + 1 \in Periods THEN Var(col, Subjects[i].id, p + 1) ELSE 0) >= 1}

\* gap variables forced to 1: gap_var >= curr - prev - next
ForcedGaps(col) ==
    {<<i, p>> \in (DOMAIN Subjects) \X (1..(PERIODS - 2)) :
        Var(col, Subjects[i].id, p) - Var(col, Subjects[i].id, p - 1)
            - Var(col, Subjects[i].id, p + 1) >= 1}

\* number of gap variables of the model
NumGapVars == Len(Subjects) * DAYS * Max2(0, PERIODS - 2)

\* the bound taken from the smallest daily maximum
MinLoadBound ==
    Len(Subjects) * (CHOOSE m \in {Subjects[i].max_periods_per_day : i \in DOMAIN Subjects} :
                        \A i \in DOMAIN Subjects : Subjects[i].max_periods_per_day >= m)

\* upper bound of the daily_load variables
DailyLoadBound ==
    Len(Subjects) * (CHOOSE m \in {Subjects[i].max_periods_per_day : i \in DOMAIN Subjects} :
                        \A i \in DOMAIN Subjects : Subjects[i].max_periods_per_day <= m)

\* daily_load == sum(day_periods), with daily_load in [0, DailyLoadBound]
DailyLoad(col) ==
    SumSeq([i \in DOMAIN Subjects |-> Cardinality(col[Subjects[i].id])]) \in 0..DailyLoadBound

(***************************************************************************)
(* add_all_constraints + add_optimization_objectives: the assembled model. *)
(* Every family but the weekly total and the room families constrains one  *)
(* day at a time (the body of its "for day in range(self.DAYS)" loop).     *)
(***************************************************************************)
DayConstraints(col) ==
    /\ DailyMax(col)
    /\ C2_SessionSeparation(col)
    /\ C3_TeacherSessions(col)
    /\ C4_LabContinuity(col)
    /\ C5_TeacherConflicts(col)
    /\ C6_NoLabFirstPeriod(col)
    /\ C8_SingleSubjectPerSlot(col)
    /\ DailyLoad(col)

\* the constraints that span the week or involve the room variables
WeekConstraints(x, r) ==
    /\ WeeklyTotal(x)
    /\ RoomConsistency(x, r)
    /\ C1_RoomConflicts(r)
    /\ C7_NoLabClashes(r)

\* x, r satisfy every constraint added to the model
Satisfies(x, r) == WeekConstraints(x, r) /\ \A d \in Days : DayConstraints(x[d])

(***************************************************************************)
(* The solver (external collaborator): enumeration of the satisfying       *)
(* assignments, day by day, by the value of the objective.                 *)
(***************************************************************************)
\* the day columns that satisfy the per-day constraints, each with the number
\* of periods it gives every subject and its number of forced gaps
DayColumns ==
    {[col |-> c,
      size |-> [sid \in SubjectIds |-> Cardinality(c[sid])],
      gaps |-> Cardinality(ForcedGaps(c))] :
        c \in {col \in [SubjectIds -> SUBSET Periods] : DayConstraints(col)}}

\* the size and gap count of a day column
Profile(k) == [size |-> k.size, gaps |-> k.gaps]

RECURSIVE WeekProfiles(_, _, _, _)
\* the sequences of n day profiles of cols that use up need[sid] periods of
\* each subject and have g forced gaps in all
WeekProfiles(cols, n, need, g) ==
    IF n = 0
    THEN IF g = 0 /\ \A sid \in DOMAIN need : need[sid] = 0 THEN {<<>>} ELSE {}
    ELSE UNION {
            {Append(w, key) :
                w \in WeekProfiles(cols, n - 1,
                        [sid \in DOMAIN need |-> need[sid] - key.size[sid]],
                        g - key.gaps)} :
            key \in {Profile(k) :
                        k \in {k \in cols :
                                /\ k.gaps <= g
                                /\ \A sid \in DOMAIN need : k.size[sid] <= need[sid]}}}

RECURSIVE WeekSchedules(_, _, _)
\* the schedules whose first n days have the profiles profile[1..n]: day d
\* is any column of cols with profile[d + 1]
WeekSchedules(cols, profile, n) ==
    IF n = 0 THEN {<<>>}
    ELSE LET rest == WeekSchedules(cols, profile, n - 1)
             last == {k.col : k \in {k \in cols : Profile(k) = profile[n]}}
         IN  {[d \in 0..(n - 1) |-> IF d = n - 1 THEN c ELSE w[d]] :
                w \in rest, c \in last}

SubjectById(sid) == Subjects[CHOOSE i \in DOMAIN Subjects : Subjects[i].id = sid]

\* the scheduled triples of x whose subject has room-assignment variables
RoomedTriples(x) ==
    UNION {{t \in {sid} \X Days \X Periods : t[3] \in x[t[2]][sid]} :
           sid \in {Subjects[i].id : i \in {j \in DOMAIN Subjects : RoomKeys(Subjects[j]) # <<>>}}}

RECURSIVE RoomPicks(_)
\* the functions that give each triple of todo one of the rooms its subject
\* has a variable for
RoomPicks(todo) ==
    IF todo = {} THEN {<<>>}
    ELSE UNION {{(t :> rid) @@ f :
                    rid \in Range(RoomKeys(SubjectById(t[1]))), f \in RoomPicks(rest)} :
                <<t, rest>> \in {<<u, todo \ {u}>> : u \in {CHOOSE u \in todo : TRUE}}}

\* values of the room-assignment variables that go with schedule x: one
\* variable at 1 for each scheduled triple that has variables, all others 0
RoomAssignments(x) ==
    UNION {{[t \in Triples |-> IF t \in roomed THEN {f[t]} ELSE {}] :
                f \in RoomPicks(roomed)} :
           roomed \in {RoomedTriples(x)}}

Need == [sid \in SubjectIds |-> SubjectById(sid).max_periods_per_week]

\* some satisfying assignment has minimal objective g
HasSolution(cols, g) ==
    \E profile \in WeekProfiles(cols, DAYS, Need, g) :
        \E x \in WeekSchedules(cols, profile, DAYS) :
            \E r \in RoomAssignments(x) : WeekConstraints(x, r)

RECURSIVE MinObjectiveFrom(_, _)
\* the least objective of a satisfying assignment, searched from g up; -1 if
\* the model has no satisfying assignment
MinObjectiveFrom(cols, g) ==
    IF g > NumGapVars THEN -1
    ELSE IF HasSolution(cols, g) THEN g ELSE MinObjectiveFrom(cols, g + 1)

(***************************************************************************)
(* extract_solution                                                        *)
(***************************************************************************)
\* first key of the triple's room dict whose variable is 1: <<>> is None
AssignedRoom(r, subject, d, p) ==
    LET ones == SelectSeq(RoomKeys(subject),
                          LAMBDA rid : RVar(r, subject.id, d, p, rid) = 1)
    IN  IF ones = <<>> THEN <<>> ELSE <<Head(ones)>>

\* Python truthiness of assigned_room: None and 0 are falsy
Truthy(assigned) == assigned # <<>> /\ assigned # <<0>>

\* the record appended for subject, day, period with room assigned_room
Session(subject, d, p, assigned_room) ==
    [day |-> d,
     time_slot |-> p,
     subject_id |-> subject.id,
     teacher_id |-> subject.teacher_id,
     room_id |-> assigned_room,
     is_lab_session |-> subject.is_lab,
     lab_duration |-> IF subject.is_lab THEN DefaultLabDuration ELSE 1]

\* no record: the slot's schedule variable is 0 or its assigned_room is falsy
NoSession == [skipped |-> TRUE]

\* what iteration k of the loops over subject, day and period appends
Slot(x, r, k) ==
    LET subject == Subjects[((k - 1) \div (DAYS * PERIODS)) + 1]
        d == ((k - 1) % (DAYS * PERIODS)) \div PERIODS
        p == (k - 1) % PERIODS
    IN  IF Var(x[d], subject.id, p) = 1 /\ Truthy(AssignedRoom(r, subject, d, p))
        THEN Session(subject, d, p, AssignedRoom(r, subject, d, p)[1])
        ELSE NoSession

\* the schedule list, in the order subject, day, period
Timetable(x, r) ==
    SelectSeq([k \in 1..(Len(Subjects) * DAYS * PERIODS) |-> Slot(x, r, k)],
              LAMBDA e : e # NoSession)

Summary(schedule, status, objective) ==
    [success |-> TRUE,
     timetable |-> schedule,
     stats |-> [solver_status |-> status,
                total_scheduled_periods |-> Len(schedule),
                objective_value |-> objective]]

ExtractSolution(x, r, status, objective) ==
    CHOOSE out \in {Summary(schedule, status, objective) :
                        schedule \in {Timetable(x, r)}} : TRUE

(***************************************************************************)
(* solve(): the result dict for each solver status.                        *)
(***************************************************************************)
InfeasibleResult ==
    [success |-> FALSE,
     error |-> "Solver could not find a feasible timetable",
     status |-> "INFEASIBLE",
     details |->
        [subjects |-> [i \in DOMAIN Subjects |->
                          [id |-> Subjects[i].id, name |-> Subjects[i].name,
                           periods_per_week |-> Subjects[i].max_periods_per_week]],
         rooms |-> [j \in DOMAIN Rooms |->
                          [id |-> Rooms[j].id, name |-> Rooms[j].name,
                           type |-> Rooms[j].type]],
         constraints_summary |->
            [total_periods_needed |->
                SumSeq([i \in DOMAIN Subjects |-> Subjects[i].max_periods_per_week]),
             total_room_capacity |-> Len(Rooms) * DAYS * PERIODS,
             lab_subjects |-> Len(SelectSeq(Subjects, LAMBDA s : s.is_lab)),
             lab_rooms |-> Len(SelectSeq(Rooms, LAMBDA r : r.type = "laboratory"))]],
     stats |-> [solver_status |-> "INFEASIBLE"]]

UnknownResult ==
    [success |-> FALSE,
     error |-> "Solver status unknown - optimization may have timed out",
     status |-> "UNKNOWN",
     details |-> [timeout_seconds |-> TimeoutSeconds,
                  suggestion |-> "Try reducing the number of subjects or increasing time limit"],
     stats |-> [solver_status |-> "UNKNOWN"]]

\* a failure document that does not name the status
NamelessResult(status_name) ==
    [success |-> FALSE, error |-> "Optimization failed",
     stats |-> [solver_status |-> status_name]]

\* the result of solve() on a status outside the four it names
OtherResult(status_name) ==
    [success |-> FALSE, error |-> "Optimization failed with status", status |-> status_name,
     stats |-> [solver_status |-> status_name]]

ErrorResult(message, error_type) ==
    [success |-> FALSE, error |-> message, stats |-> [error_type |-> error_type]]

\* the document of main()'s "except Exception" handler
UnexpectedErrorResult(error_type, details) ==
    [success |-> FALSE, error |-> "Unexpected error during optimization",
     stats |-> [error_type |-> error_type, error_details |-> details]]

\* every subject and room has the key 'name', which only solve() reads
HasNames ==
    /\ \A i \in DOMAIN Subjects : "name" \in DOMAIN Subjects[i]
    /\ \A j \in DOMAIN Rooms : "name" \in DOMAIN Rooms[j]

NoResult == [pending |-> TRUE]

NoValues == <<>>

(***************************************************************************)
(* The explored inputs.                                                    *)
(***************************************************************************)
MkSubject(i, lab, teacher, week, day) ==
    [id |-> i, name |-> "subject", teacher_id |-> teacher, is_lab |-> lab,
     max_periods_per_week |-> week, max_periods_per_day |-> day]

MkRoom(i, type) == [id |-> i, name |-> "room", type |-> type]

PerWeekChoices == {1, 2}

PerDayChoices == {1, 2}

\* one subject of any kind, or that subject followed by a one-period subject
SubjectLists ==
    LET first == {MkSubject(1, lab, "T1", week, day) :
                    lab \in BOOLEAN, week \in PerWeekChoices, day \in PerDayChoices}
        second == {MkSubject(2, lab, teacher, 1, 1) :
                    lab \in BOOLEAN, teacher \in {"T1", "T2"}}
    IN  {<<a>> : a \in first} \cup {<<a, b>> : a \in first, b \in second}

\* nc classrooms followed by nl laboratories, ids counted from first
MkRooms(first, nc, nl) ==
    [j \in 1..(nc + nl) |->
        MkRoom(first + j - 1, IF j <= nc THEN "classroom" ELSE "laboratory")]

RoomLists ==
    {MkRooms(first, nc, nl) : first \in {0, 1}, nc \in {0, 1}, nl \in {0, 1}} \ {<<>>}

\* no key at all
NoKeys == <<>>

\* morning_periods / evening_periods as counts, as lists (unsorted, with an
\* index out of range), mixed, or absent
PeriodOptions ==
    {("morning_periods" :> [int |-> 2]) @@ ("evening_periods" :> [int |-> 2]),
     ("morning_periods" :> [list |-> <<2, 1>>]) @@ ("evening_periods" :> [list |-> <<3, 7>>]),
     ("morning_periods" :> [int |-> 1]) @@ ("evening_periods" :> [list |-> <<2, 3>>]),
     NoKeys}

Toggle(key) == {NoKeys, key :> FALSE}

BaseConstraints(lab) ==
    [days_per_week |-> NumDays, periods_per_day |-> NumPeriods, lab_duration |-> lab]

LabDurations == {2, 3}

Document(subjects, rooms, constraints) ==
    [department |-> [name |-> "CS"], subjects |-> subjects, rooms |-> rooms,
     constraints |-> constraints]

\* any subjects and any rooms, every option absent
RoomFamily ==
    {Document(subjects, rooms, BaseConstraints(DefaultLabDuration)) :
        subjects \in SubjectLists, rooms \in RoomLists}

\* any subjects, one room of each type, one period a day for each teacher
TeacherFamily ==
    {Document(subjects, MkRooms(1, 1, 1),
              BaseConstraints(DefaultLabDuration) @@ ("max_teacher_sessions_per_day" :> 1)) :
        subjects \in SubjectLists}

\* a lab subject, alone or with a non-lab subject of another teacher, under
\* every lab option and period-set form
OptionFamily ==
    {Document(subjects, MkRooms(1, 1, 1), BaseConstraints(lab) @@ po @@ c4 @@ c6) :
        subjects \in {sl \in SubjectLists :
                        /\ sl[1].is_lab /\ sl[1].max_periods_per_day = 2
                        /\ Len(sl) > 1 => (~sl[2].is_lab /\ sl[2].teacher_id = "T2")},
        lab \in LabDurations, po \in PeriodOptions,
        c4 \in Toggle("enforce_lab_continuity"),
        c6 \in Toggle("no_lab_first_period")}

\* no subject, or no room
EmptyFamily ==
    {Document(<<>>, MkRooms(1, 1, 1), BaseConstraints(DefaultLabDuration)),
     Document(<<MkSubject(1, FALSE, "T1", 1, 1)>>, <<>>, BaseConstraints(DefaultLabDuration))}

\* a record without its key 'name'
Unnamed(rec) == [k \in (DOMAIN rec) \ {"name"} |-> rec[k]]

\* documents whose subjects and rooms have exactly the required keys: one
\* teacher with one period a day, for one subject or for two
BareFamily ==
    {Document([i \in DOMAIN subjects |-> Unnamed(subjects[i])],
              [j \in 1..2 |-> Unnamed(MkRooms(1, 1, 1)[j])],
              BaseConstraints(DefaultLabDuration) @@ ("max_teacher_sessions_per_day" :> 1)) :
        subjects \in {<<MkSubject(1, FALSE, "T1", 1, 1)>>,
                      <<MkSubject(1, FALSE, "T1", 2, 1), MkSubject(2, FALSE, "T1", 1, 1)>>}}

\* a document whose constraints lack lab_duration
NoLabDurationFamily ==
    {Document(<<MkSubject(1, FALSE, "T1", 1, 1)>>, MkRooms(1, 1, 1),
              [days_per_week |-> NumDays, periods_per_day |-> NumPeriods])}

\* documents whose only subject allows a negative number of periods a day,
\* so that the daily_load variables are declared over the empty range
NegativeFamily ==
    {Document(<<MkSubject(1, FALSE, "T1", week, -1)>>, MkRooms(1, 1, 1),
              BaseConstraints(DefaultLabDuration)) : week \in {1, 2}}

\* a lab subject of 3 or 4 periods a week, at most 2 a day, without lab
\* continuity, kept off periods 0 and 2 by no_lab_first_period: some day
\* has to hold it at periods 1 and 3
GapFamily ==
    {Document(<<MkSubject(1, TRUE, "T1", week, 2)>>, MkRooms(1, 1, 1),
              BaseConstraints(DefaultLabDuration)
                  @@ ("morning_periods" :> [int |-> 2]) @@ ("evening_periods" :> [int |-> 2])
                  @@ ("enforce_lab_continuity" :> FALSE)) : week \in {3, 4}}

Documents ==
    RoomFamily \cup TeacherFamily \cup OptionFamily \cup EmptyFamily \cup BareFamily
        \cup NoLabDurationFamily \cup NegativeFamily \cup GapFamily

\* a document that lacks one of the required fields
Incomplete == {[department |-> [name |-> "CS"], subjects |-> <<>>, rooms |-> <<>>]}

Invocations ==
    {[argc |-> 2, json_ok |-> TRUE, data |-> doc] : doc \in Documents \cup Incomplete}
    \cup {[argc |-> n, json_ok |-> TRUE, data |-> NoKeys] : n \in {1, 3}}
    \cup {[argc |-> 2, json_ok |-> FALSE, data |-> NoKeys]}

(***************************************************************************)
(* main()                                                                  *)
(***************************************************************************)
Init ==
    /\ input \in Invocations
    /\ pc = "start"
    /\ MORNING_PERIODS_LIST = <<>>
    /\ EVENING_PERIODS_LIST = <<>>
    /\ schedule_vars = NoValues
    /\ room_assignment = NoValues
    /\ solver_status = ""
    /\ objective_value = 0
    /\ result = NoResult
    /\ stdout = <<>>
    /\ exit_code = -1

RequiredFields == <<"department", "subjects", "rooms", "constraints">>

\* the error document of the first failed check of main(), <<>> if none fails
ValidationError ==
    IF input.argc # 2
    THEN <<ErrorResult("Usage: python timetable_optimizer.py '<json_data>'", "ArgumentError")>>
    ELSE IF ~input.json_ok
    THEN <<ErrorResult("Invalid JSON input", "JSONDecodeError")>>
    ELSE IF \E k \in DOMAIN RequiredFields : RequiredFields[k] \notin DOMAIN Data
    THEN <<ErrorResult("Missing required field", "ValidationError")>>
    ELSE IF Len(Subjects) = 0
    THEN <<ErrorResult("No subjects provided for optimization", "ValidationError")>>
    ELSE IF Len(Rooms) = 0
    THEN <<ErrorResult("No rooms provided for optimization", "ValidationError")>>
    ELSE <<>>

\* a check of main() fails: print the error document and exit
Reject ==
    /\ pc = "start"
    /\ ValidationError # <<>>
    /\ result' = ValidationError[1]
    /\ stdout' = Append(stdout, ValidationError[1])
    /\ exit_code' = 0
    /\ pc' = "done"
    /\ UNCHANGED <<input, MORNING_PERIODS_LIST, EVENING_PERIODS_LIST, schedule_vars,
                   room_assignment, solver_status, objective_value>>

\* the keys __init__ reads from constraints with [...]
InitKeys == {"days_per_week", "periods_per_day", "lab_duration"}

\* TimetableOptimizer(input_data) raises KeyError: a key of InitKeys is absent
BuildRaises ==
    /\ pc = "start"
    /\ ValidationError = <<>>
    /\ ~(InitKeys \subseteq DOMAIN Constraints)
    /\ pc' = "raised"
    /\ UNCHANGED <<input, MORNING_PERIODS_LIST, EVENING_PERIODS_LIST, schedule_vars,
                   room_assignment, solver_status, objective_value, result, stdout,
                   exit_code>>

\* TimetableOptimizer(input_data), create_variables, add_all_constraints and
\* add_optimization_objectives
Build ==
    /\ pc = "start"
    /\ ValidationError = <<>>
    /\ InitKeys \subseteq DOMAIN Constraints
    /\ MORNING_PERIODS_LIST' = NormalizeMorning(Constraints)
    /\ EVENING_PERIODS_LIST' = NormalizeEvening(Constraints)
    /\ pc' = "built"
    /\ UNCHANGED <<input, schedule_vars, room_assignment, solver_status,
                   objective_value, result, stdout, exit_code>>

\* every integer variable of the model is declared over a non-empty range;
\* the solver validates the model before it searches
ModelValid == DailyLoadBound >= 0

\* solve() when the solver proves optimality
SolveOptimal ==
    /\ pc = "built"
    /\ ModelValid
    /\ \E cols \in {DayColumns} : \E best \in {MinObjectiveFrom(cols, 0)} :
           /\ best >= 0
           /\ \E profile \in WeekProfiles(cols, DAYS, Need, best) :
                \E x \in WeekSchedules(cols, profile, DAYS) :
                  \E r \in RoomAssignments(x) :
                    /\ WeekConstraints(x, r)
                    /\ schedule_vars' = x
                    /\ room_assignment' = r
                    /\ solver_status' = "OPTIMAL"
                    /\ objective_value' = best
                    /\ result' = ExtractSolution(x, r, "OPTIMAL", best)
    /\ pc' = "solved"
    /\ UNCHANGED <<input, MORNING_PERIODS_LIST, EVENING_PERIODS_LIST, stdout, exit_code>>

\* solve() when the solver stops with a solution it has not proved optimal:
\* any satisfying assignment, the gap variables that are not forced being free
SolveFeasible ==
    /\ pc = "built"
    /\ ModelValid
    /\ \E cols \in {DayColumns} :
           \E g \in 0..NumGapVars :
             \E profile \in WeekProfiles(cols, DAYS, Need, g) :
               \E x \in WeekSchedules(cols, profile, DAYS) :
                 \E r \in {r \in RoomAssignments(x) : WeekConstraints(x, r)} :
                   \E schedule \in {Timetable(x, r)} :
                     \E slack \in 0..Min2(MaxSlack, NumGapVars - g) :
                       /\ schedule_vars' = x
                       /\ room_assignment' = r
                       /\ solver_status' = "FEASIBLE"
                       /\ objective_value' = g + slack
                       /\ result' = Summary(schedule, "FEASIBLE", g + slack)
    /\ pc' = "solved"
    /\ UNCHANGED <<input, MORNING_PERIODS_LIST, EVENING_PERIODS_LIST, stdout, exit_code>>

\* solve() when the solver proves that no assignment exists: the details
\* read s['name'] and r['name'], which raises KeyError when a name is absent
SolveInfeasible ==
    /\ pc = "built"
    /\ ModelValid
    /\ MinObjectiveFrom(DayColumns, 0) < 0
    /\ solver_status' = "INFEASIBLE"
    /\ IF HasNames
       THEN result' = InfeasibleResult /\ pc' = "solved"
       ELSE result' = result /\ pc' = "raised"
    /\ UNCHANGED <<input, MORNING_PERIODS_LIST, EVENING_PERIODS_LIST, schedule_vars,
                   room_assignment, objective_value, stdout, exit_code>>

\* solve() when the time budget ends with neither a solution nor a proof
SolveUnknown ==
    /\ pc = "built"
    /\ ModelValid
    /\ solver_status' = "UNKNOWN"
    /\ result' = UnknownResult
    /\ pc' = "solved"
    /\ UNCHANGED <<input, MORNING_PERIODS_LIST, EVENING_PERIODS_LIST, schedule_vars,
                   room_assignment, objective_value, stdout, exit_code>>

\* solve() when the solver rejects the model: a status outside OPTIMAL,
\* FEASIBLE, INFEASIBLE and UNKNOWN
SolveOther ==
    /\ pc = "built"
    /\ ~ModelValid
    /\ solver_status' = "MODEL_INVALID"
    /\ result' = OtherResult("MODEL_INVALID")
    /\ pc' = "solved"
    /\ UNCHANGED <<input, MORNING_PERIODS_LIST, EVENING_PERIODS_LIST, schedule_vars,
                   room_assignment, objective_value, stdout, exit_code>>

\* main() writes the result of solve() and exits
WriteResult ==
    /\ pc = "solved"
    /\ stdout' = Append(stdout, result)
    /\ exit_code' = 0
    /\ pc' = "done"
    /\ UNCHANGED <<input, MORNING_PERIODS_LIST, EVENING_PERIODS_LIST, schedule_vars,
                   room_assignment, solver_status, objective_value, result>>

\* the key whose absence raised the KeyError
MissingKey ==
    IF solver_status = "INFEASIBLE" THEN "name"
    ELSE CHOOSE k \in InitKeys : k \notin DOMAIN Constraints

\* the process ends with the exception unhandled: nothing is written
Uncaught ==
    /\ pc = "raised"
    /\ exit_code' = 1
    /\ pc' = "done"
    /\ UNCHANGED <<input, MORNING_PERIODS_LIST, EVENING_PERIODS_LIST, schedule_vars,
                   room_assignment, solver_status, objective_value, result, stdout>>

\* main()'s "except Exception" handler: print the error document and exit
HandleException ==
    /\ pc = "raised"
    /\ result' = UnexpectedErrorResult("KeyError", MissingKey)
    /\ stdout' = Append(stdout, result')
    /\ exit_code' = 0
    /\ pc' = "done"
    /\ UNCHANGED <<input, MORNING_PERIODS_LIST, EVENING_PERIODS_LIST, schedule_vars,
                   room_assignment, solver_status, objective_value>>

Next ==
    \/ Reject
    \/ BuildRaises
    \/ HandleException
    \/ Build
    \/ SolveOptimal
    \/ SolveFeasible
    \/ SolveInfeasible
    \/ SolveUnknown
    \/ SolveOther
    \/ WriteResult

Spec == Init /\ [][Next]_vars

(***************************************************************************)
(* The concrete scenario: department CS, subject A (id 1, non-lab, T1, 5 a *)
(* week, at most 2 a day), subject B (id 2, lab, T2, 3 a week, at most 3 a *)
(* day), classroom 1, laboratory 2, 5 days of 8 periods, every option at   *)
(* its default.  Only the solver's OPTIMAL outcome is explored.            *)
(***************************************************************************)
ScenarioDocument ==
    Document(<<MkSubject(1, FALSE, "T1", 5, 2), MkSubject(2, TRUE, "T2", 3, 3)>>,
             <<MkRoom(1, "classroom"), MkRoom(2, "laboratory")>>,
             [days_per_week |-> 5, periods_per_day |-> 8,
              lab_duration |-> DefaultLabDuration,
              morning_periods |-> [list |-> DefaultMorning],
              evening_periods |-> [list |-> DefaultEvening]])

ScenarioInit ==
    /\ input = [argc |-> 2, json_ok |-> TRUE, data |-> ScenarioDocument]
    /\ pc = "start"
    /\ MORNING_PERIODS_LIST = <<>>
    /\ EVENING_PERIODS_LIST = <<>>
    /\ schedule_vars = NoValues
    /\ room_assignment = NoValues
    /\ solver_status = ""
    /\ objective_value = 0
    /\ result = NoResult
    /\ stdout = <<>>
    /\ exit_code = -1

ScenarioNext ==
    \/ Build
    \/ SolveOptimal
    \/ WriteResult

ScenarioSpec == ScenarioInit /\ [][ScenarioNext]_vars

(***************************************************************************)
(* Properties of the result.                                               *)
(***************************************************************************)
\* solve() returned extract_solution's document
Succeeded ==
    pc \in {"solved", "done"} /\ solver_status \in {"OPTIMAL", "FEASIBLE"}

\* the records of the emitted timetable that belong to subject id sid
SessionsOf(sid) ==
    {e \in DOMAIN result.timetable : result.timetable[e].subject_id = sid}

\* the records of the emitted timetable that belong to teacher t on day d
TeacherSessions(t, d) ==
    {e \in DOMAIN result.timetable :
        result.timetable[e].teacher_id = t /\ result.timetable[e].day = d}

\* the type of the room with id rid
RoomType(rid) == Rooms[CHOOSE j \in DOMAIN Rooms : Rooms[j].id = rid].type

\* the type of room a subject needs
NeededType(lab) == IF lab THEN "laboratory" ELSE "classroom"

\* subjects of one kind need more periods than the rooms of their type offer
OverDemand(lab) ==
    SumSeq([i \in DOMAIN Subjects |->
                IF Subjects[i].is_lab = lab THEN Subjects[i].max_periods_per_week ELSE 0])
        > Len(SelectSeq(Rooms, LAMBDA room : room.type = NeededType(lab))) * DAYS * PERIODS

\* smallest element of a non-empty list of integers
Smallest(s) == CHOOSE m \in Range(s) : \A v \in Range(s) : m <= v

\* C1: whenever the solver returns OPTIMAL or FEASIBLE, each subject has
\* exactly max_periods_per_week records in the emitted timetable.
C1_EmittedEqualsWeekly ==
    Succeeded =>
        \A i \in DOMAIN Subjects :
            Cardinality(SessionsOf(Subjects[i].id)) = Subjects[i].max_periods_per_week

\* C2: an input whose subjects of some kind need more periods than the rooms
\* of the matching type offer ends with success = false and status INFEASIBLE
\* whenever the solver reaches a verdict, never with a timetable.
C2_OverDemandIsInfeasible ==
    (/\ pc = "done"
     /\ solver_status \in {"OPTIMAL", "FEASIBLE", "INFEASIBLE"}
     /\ \E lab \in BOOLEAN : OverDemand(lab)) =>
        (~result.success /\ result.status = "INFEASIBLE")

\* C3: in every assignment the solver returns, the room-assignment variables
\* of each (subject, day, period) sum to its schedule variable, and the
\* extractor finds a room for every schedule variable that is 1.
C3_RoomCoupling ==
    Succeeded =>
        \A i \in DOMAIN Subjects : \A d \in Days : \A p \in Periods :
            /\ Cardinality(room_assignment[<<Subjects[i].id, d, p>>])
                    = Var(schedule_vars[d], Subjects[i].id, p)
            /\ Var(schedule_vars[d], Subjects[i].id, p) = 1 =>
                    AssignedRoom(room_assignment, Subjects[i], d, p) # <<>>

\* C4: with lab continuity enabled, every scheduled period of a lab subject
\* has a scheduled neighbour on the same day, the first and the last period
\* of the day included.
C4_NoIsolatedLabPeriod ==
    (Succeeded /\ Get(Constraints, "enforce_lab_continuity", TRUE)) =>
        \A i \in DOMAIN Subjects : \A d \in Days :
            Subjects[i].is_lab =>
                \A p \in schedule_vars[d][Subjects[i].id] :
                    \/ p - 1 \in schedule_vars[d][Subjects[i].id]
                    \/ p + 1 \in schedule_vars[d][Subjects[i].id]

\* the (day, period) pairs of the emitted records of subject id sid
SlotsOf(sid) ==
    {<<result.timetable[e].day, result.timetable[e].time_slot>> : e \in SessionsOf(sid)}

\* C5: in the concrete scenario every objective-minimal solution gives A (the
\* first subject) 5 sessions, at most 2 a day, all in the classroom, and gives
\* B (the second subject) one block of three consecutive periods on a single
\* day in the laboratory, with no session at period 0 or 4.
C5_ScenarioOptimum ==
    (pc \in {"solved", "done"} /\ solver_status = "OPTIMAL") =>
        /\ result.success
        /\ Cardinality(SessionsOf(Subjects[1].id)) = 5
        /\ \A d \in Days :
              Cardinality({s \in SlotsOf(Subjects[1].id) : s[1] = d}) <= 2
        /\ \A e \in SessionsOf(Subjects[1].id) :
              RoomType(result.timetable[e].room_id) = "classroom"
        /\ \E d \in Days : \E p \in Periods :
              SlotsOf(Subjects[2].id) = {<<d, p>>, <<d, p + 1>>, <<d, p + 2>>}
        /\ \A e \in SessionsOf(Subjects[2].id) :
              /\ RoomType(result.timetable[e].room_id) = "laboratory"
              /\ result.timetable[e].time_slot \notin {0, 4}

\* C6: the emitted timetable has at most one record for each (day, period),
\* over all subjects.
C6_OneSessionPerSlot ==
    Succeeded =>
        \A e1 \in DOMAIN result.timetable : \A e2 \in DOMAIN result.timetable :
            e1 # e2 =>
                <<result.timetable[e1].day, result.timetable[e1].time_slot>>
                    # <<result.timetable[e2].day, result.timetable[e2].time_slot>>

\* two subjects of different teachers, in different rooms, are emitted on the
\* same day
C6_Witness ==
    /\ Succeeded
    /\ \E e1 \in DOMAIN result.timetable : \E e2 \in DOMAIN result.timetable :
          /\ result.timetable[e1].subject_id # result.timetable[e2].subject_id
          /\ result.timetable[e1].teacher_id # result.timetable[e2].teacher_id
          /\ result.timetable[e1].room_id # result.timetable[e2].room_id
          /\ result.timetable[e1].day = result.timetable[e2].day

\* C7: each teacher has at most max_teacher_sessions_per_day emitted sessions
\* a day over all of the teacher's subjects, and no two of them share a period.
C7_TeacherDailyCap ==
    Succeeded =>
        \A t \in TeacherIds : \A d \in Days :
            /\ Cardinality(TeacherSessions(t, d)) <= MaxSessionsPerDay
            /\ \A e1 \in TeacherSessions(t, d) : \A e2 \in TeacherSessions(t, d) :
                  e1 # e2 => result.timetable[e1].time_slot # result.timetable[e2].time_slot

\* a teacher of two subjects reaches the cap on a day with sessions of both
C7_Witness ==
    /\ Succeeded
    /\ \E t \in TeacherIds : \E d \in Days :
          /\ Len(TeacherSubjects(t)) = 2
          /\ Cardinality(TeacherSessions(t, d)) = MaxSessionsPerDay
          /\ Cardinality({result.timetable[e].subject_id : e \in TeacherSessions(t, d)}) = 2

\* C8: with no_lab_first_period enabled, no lab subject is scheduled or emitted
\* at the smallest index of the normalized morning set or of the normalized
\* evening set, when the set is non-empty.
C8_NoLabAtFirstIndex ==
    (Succeeded /\ Get(Constraints, "no_lab_first_period", TRUE)) =>
        \A i \in DOMAIN Subjects : \A d \in Days :
            Subjects[i].is_lab =>
                /\ MORNING_PERIODS_LIST # <<>> =>
                      /\ Smallest(MORNING_PERIODS_LIST) \notin schedule_vars[d][Subjects[i].id]
                      /\ <<d, Smallest(MORNING_PERIODS_LIST)>> \notin SlotsOf(Subjects[i].id)
                /\ EVENING_PERIODS_LIST # <<>> =>
                      /\ Smallest(EVENING_PERIODS_LIST) \notin schedule_vars[d][Subjects[i].id]
                      /\ <<d, Smallest(EVENING_PERIODS_LIST)>> \notin SlotsOf(Subjects[i].id)

\* both sets are non-empty, a lab subject is emitted, and a non-lab subject
\* is emitted at the smallest morning index
C8_Witness ==
    /\ Succeeded
    /\ Get(Constraints, "no_lab_first_period", TRUE)
    /\ MORNING_PERIODS_LIST # <<>>
    /\ EVENING_PERIODS_LIST # <<>>
    /\ \E i \in DOMAIN Subjects : Subjects[i].is_lab /\ SessionsOf(Subjects[i].id) # {}
    /\ \E e \in DOMAIN result.timetable :
          /\ ~result.timetable[e].is_lab_session
          /\ result.timetable[e].time_slot = Smallest(MORNING_PERIODS_LIST)

\* C9: every emitted session puts a lab subject in a laboratory and a non-lab
\* subject in a classroom, and a subject has room-assignment variables only
\* for rooms of its type.
C9_RoomTypeMatches ==
    /\ Succeeded =>
          \A e \in DOMAIN result.timetable :
              RoomType(result.timetable[e].room_id)
                  = NeededType(result.timetable[e].is_lab_session)
    /\ (pc \in {"built", "solved", "done"} /\ ValidationError = <<>>) =>
          \A i \in DOMAIN Subjects : \A rid \in Range(RoomKeys(Subjects[i])) :
              RoomType(rid) = NeededType(Subjects[i].is_lab)

\* rooms of both types exist, and a lab and a non-lab session are emitted
C9_Witness ==
    /\ Succeeded
    /\ \E j \in DOMAIN Rooms : Rooms[j].type = "classroom"
    /\ \E j \in DOMAIN Rooms : Rooms[j].type = "laboratory"
    /\ \E e \in DOMAIN result.timetable : result.timetable[e].is_lab_session
    /\ \E e \in DOMAIN result.timetable : ~result.timetable[e].is_lab_session

\* C10: a subject has at most max_periods_per_day emitted sessions on a day.
C10_DailyCap ==
    Succeeded =>
        \A i \in DOMAIN Subjects : \A d \in Days :
            Cardinality({s \in SlotsOf(Subjects[i].id) : s[1] = d})
                <= Subjects[i].max_periods_per_day

\* a subject whose daily cap is below its weekly count is emitted in full
\* while another subject leaves a day free
C10_Witness ==
    /\ Succeeded
    /\ Len(Subjects) = 2
    /\ \E i \in DOMAIN Subjects :
          /\ Subjects[i].max_periods_per_day < Subjects[i].max_periods_per_week
          /\ Cardinality(SessionsOf(Subjects[i].id)) = Subjects[i].max_periods_per_week

\* the keys the external interface requires of a subject and of a room
SubjectKeys == {"id", "teacher_id", "is_lab", "max_periods_per_week", "max_periods_per_day"}

RoomRecordKeys == {"id", "type"}

\* the input supplies exactly the required keys
ExactKeys ==
    /\ \A i \in DOMAIN Subjects : DOMAIN Subjects[i] = SubjectKeys
    /\ \A j \in DOMAIN Rooms : DOMAIN Rooms[j] = RoomRecordKeys

\* C11: for an input with exactly the required keys, when the solver returns
\* INFEASIBLE the emitted document has success = false, status INFEASIBLE, no
\* timetable, and details with the weekly periods of each subject, the type
\* of each room and the four aggregates.
C11_InfeasibleDiagnostic ==
    (pc = "done" /\ solver_status = "INFEASIBLE" /\ ExactKeys) =>
        /\ ~result.success
        /\ Get(result, "status", "") = "INFEASIBLE"
        /\ "timetable" \notin DOMAIN result
        /\ "details" \in DOMAIN result
        /\ \A i \in DOMAIN Subjects :
              result.details.subjects[i].periods_per_week = Subjects[i].max_periods_per_week
        /\ \A j \in DOMAIN Rooms : result.details.rooms[j].type = Rooms[j].type
        /\ result.details.constraints_summary =
              [total_periods_needed |->
                  SumSeq([i \in DOMAIN Subjects |-> Subjects[i].max_periods_per_week]),
               total_room_capacity |-> Len(Rooms) * DAYS * PERIODS,
               lab_subjects |-> Cardinality({i \in DOMAIN Subjects : Subjects[i].is_lab}),
               lab_rooms |-> Cardinality({j \in DOMAIN Rooms : Rooms[j].type = "laboratory"})]

\* C12: on every path of main() exactly one document is written to the
\* primary output, when the process ends and not before; the process ends
\* with exit code 0 and cannot stop anywhere else; off OPTIMAL and FEASIBLE
\* the document has success = false.
C12_OneDocumentExitZero ==
    /\ pc # "done" => (stdout = <<>> /\ exit_code = -1)
    /\ pc \in {"start", "built", "solved", "raised", "done"}
    /\ pc = "start" => ENABLED (Reject \/ BuildRaises \/ Build)
    /\ pc = "built" => ENABLED (SolveUnknown \/ SolveOther)
    /\ pc = "solved" => ENABLED WriteResult
    /\ pc = "raised" => ENABLED HandleException
    /\ pc = "done" =>
          /\ Len(stdout) = 1
          /\ stdout[1] = result
          /\ exit_code = 0
          /\ "success" \in DOMAIN result
          /\ solver_status \notin {"OPTIMAL", "FEASIBLE"} => ~result.success

\* the process has ended after an exception raised inside solve()
C12_Witness ==
    /\ pc = "done"
    /\ solver_status = "INFEASIBLE"
    /\ Get(result.stats, "error_type", "") = "KeyError"

\* the first index after the normalized morning set
AfterMorning ==
    IF MORNING_PERIODS_LIST = <<>> THEN 0
    ELSE MORNING_PERIODS_LIST[Len(MORNING_PERIODS_LIST)] + 1

C14_Classification ==
    /\ [](pc = "solved" =>
            /\ solver_status \in {"OPTIMAL", "FEASIBLE", "INFEASIBLE", "UNKNOWN", "MODEL_INVALID"}
            /\ result.success <=> solver_status \in {"OPTIMAL", "FEASIBLE"}
            /\ result.success <=> "timetable" \in DOMAIN result
            /\ solver_status = "UNKNOWN" =>
                  /\ Get(result, "status", "") = "UNKNOWN"
                  /\ result.details.timeout_seconds = 60
                  /\ "suggestion" \in DOMAIN result.details
            /\ solver_status \notin {"OPTIMAL", "FEASIBLE", "INFEASIBLE", "UNKNOWN"} =>
                  /\ ~result.success
                  /\ Get(result, "status", "") = solver_status)
    /\ [](pc \in {"start", "built"} => solver_status = "")
    /\ [](ValidationError # <<>> => solver_status = "")
    /\ [](pc = "done" /\ ValidationError = <<>> /\ InitKeys \subseteq DOMAIN Constraints
            => solver_status # "")
    /\ [][solver_status' # solver_status =>
            pc = "built" /\ solver_status = "" /\ pc' \notin {"start", "built"}]_vars
    /\ [][pc' = "built" => pc = "start"]_vars

\* solve() has returned on a status outside the four it names
C14_Witness ==
    /\ pc = "solved"
    /\ solver_status = "MODEL_INVALID"
    /\ ~result.success

(***************************************************************************)
(* The model that add_all_constraints would build without its calls of     *)
(* add_constraint_c1_room_conflicts, add_constraint_c5_teacher_conflicts   *)
(* and add_constraint_c7_no_lab_clashes.                                   *)
(***************************************************************************)
ReducedDayConstraints(col) ==
    /\ DailyMax(col)
    /\ C2_SessionSeparation(col)
    /\ C3_TeacherSessions(col)
    /\ C4_LabContinuity(col)
    /\ C6_NoLabFirstPeriod(col)
    /\ C8_SingleSubjectPerSlot(col)
    /\ DailyLoad(col)

ReducedWeekConstraints(x, r) ==
    /\ WeeklyTotal(x)
    /\ RoomConsistency(x, r)

ReducedSatisfies(x, r) ==
    ReducedWeekConstraints(x, r) /\ \A d \in Days : ReducedDayConstraints(x[d])

ReducedDayColumns ==
    {[col |-> c,
      size |-> [sid \in SubjectIds |-> Cardinality(c[sid])],
      gaps |-> Cardinality(ForcedGaps(c))] :
        c \in {col \in [SubjectIds -> SUBSET Periods] : ReducedDayConstraints(col)}}

\* the solver on the full model: any assignment that satisfies it, before
\* solve() goes on to extract_solution
SolveFull ==
    /\ pc = "built"
    /\ ModelValid
    /\ \E cols \in {DayColumns} :
           \E g \in 0..NumGapVars :
             \E profile \in WeekProfiles(cols, DAYS, Need, g) :
               \E x \in WeekSchedules(cols, profile, DAYS) :
                 \E r \in RoomAssignments(x) :
                   /\ WeekConstraints(x, r)
                   /\ schedule_vars' = x
                   /\ room_assignment' = r
                   /\ objective_value' = g
    /\ solver_status' = "FEASIBLE"
    /\ pc' = "full"
    /\ UNCHANGED <<input, MORNING_PERIODS_LIST, EVENING_PERIODS_LIST, result, stdout,
                   exit_code>>

\* the solver on the reduced model: any assignment that satisfies it
SolveReduced ==
    /\ pc = "built"
    /\ ModelValid
    /\ \E cols \in {ReducedDayColumns} :
           \E g \in 0..NumGapVars :
             \E profile \in WeekProfiles(cols, DAYS, Need, g) :
               \E x \in WeekSchedules(cols, profile, DAYS) :
                 \E r \in RoomAssignments(x) :
                   /\ ReducedWeekConstraints(x, r)
                   /\ schedule_vars' = x
                   /\ room_assignment' = r
    /\ solver_status' = "FEASIBLE"
    /\ pc' = "reduced"
    /\ UNCHANGED <<input, MORNING_PERIODS_LIST, EVENING_PERIODS_LIST, objective_value,
                   result, stdout, exit_code>>

\* both models on every input: any satisfying assignment of each
ReducedNext ==
    \/ Build
    \/ SolveFull
    \/ SolveReduced

ReducedSpec == Init /\ [][ReducedNext]_vars

\* C15: the full model and the model without C1, C5 and C7 have the same
\* satisfying assignments: every assignment the solver can return on the
\* reduced model satisfies the full model, and every assignment it can
\* return on the full model satisfies the reduced one.
C15_SameSatisfyingSet ==
    /\ pc = "reduced" => Satisfies(schedule_vars, room_assignment)
    /\ pc = "full" => ReducedSatisfies(schedule_vars, room_assignment)

\* the reduced model has been solved for two lab subjects of one teacher
\* that can use the same laboratory, both scheduled
C15_Witness ==
    /\ pc = "reduced"
    /\ Len(Subjects) = 2
    /\ Subjects[1].is_lab /\ Subjects[2].is_lab
    /\ Subjects[1].teacher_id = Subjects[2].teacher_id
    /\ \E j \in DOMAIN Rooms : Rooms[j].type = "laboratory"
    /\ \A i \in DOMAIN Subjects : \E d \in Days : schedule_vars[d][Subjects[i].id] # {}

\* C16: with lab continuity enabled and lab_duration L >= 2, a lab subject
\* scheduled on a day at a period p <= PERIODS - L is scheduled at every
\* period from p to the end of that day; so, with no_lab_first_period also
\* enabled and e the first evening index, a lab subject is scheduled at no
\* period p <= min(e, PERIODS - L).
C16_LabRunsToEndOfDay ==
    (pc \in {"solved", "done"} /\ solver_status \in {"OPTIMAL", "FEASIBLE"}) =>
        \A i \in DOMAIN Subjects : \A d \in Days :
            (/\ Subjects[i].is_lab
             /\ Get(Constraints, "enforce_lab_continuity", TRUE)
             /\ Constraints.lab_duration >= 2) =>
                /\ \A p \in Periods :
                      (p \in schedule_vars[d][Subjects[i].id]
                         /\ p <= PERIODS - Constraints.lab_duration) =>
                          \A q \in p..(PERIODS - 1) : q \in schedule_vars[d][Subjects[i].id]
                /\ (Get(Constraints, "no_lab_first_period", TRUE)
                      /\ EVENING_PERIODS_LIST # <<>>) =>
                       \A p \in Periods :
                           p <= Min2(EVENING_PERIODS_LIST[1],
                                     PERIODS - Constraints.lab_duration) =>
                               p \notin schedule_vars[d][Subjects[i].id]

\* a lab subject has been scheduled at a period p <= PERIODS - L under lab
\* continuity with L >= 2
C16_Witness ==
    /\ pc = "solved"
    /\ solver_status \in {"OPTIMAL", "FEASIBLE"}
    /\ Get(Constraints, "enforce_lab_continuity", TRUE)
    /\ Constraints.lab_duration >= 2
    /\ \E i \in DOMAIN Subjects : \E d \in Days : \E p \in Periods :
          /\ Subjects[i].is_lab
          /\ p <= PERIODS - Constraints.lab_duration
          /\ p \in schedule_vars[d][Subjects[i].id]

\* the (subject, day, period) of schedule x with 1 <= period <= PERIODS - 2
\* where the subject is scheduled and is scheduled neither just before nor
\* just after
IsolatedInterior(x) ==
    {t \in Triples :
        /\ 1 <= t[3] /\ t[3] <= PERIODS - 2
        /\ t[3] \in x[t[2]][t[1]]
        /\ (t[3] - 1) \notin x[t[2]][t[1]]
        /\ (t[3] + 1) \notin x[t[2]][t[1]]}

LoadFreeDayConstraints(col) ==
    /\ DailyMax(col)
    /\ C2_SessionSeparation(col)
    /\ C3_TeacherSessions(col)
    /\ C4_LabContinuity(col)
    /\ C5_TeacherConflicts(col)
    /\ C6_NoLabFirstPeriod(col)
    /\ C8_SingleSubjectPerSlot(col)

LoadFreeSatisfies(x, r) ==
    WeekConstraints(x, r) /\ \A d \in Days : LoadFreeDayConstraints(x[d])

LoadFreeDayColumns ==
    {[col |-> c,
      size |-> [sid \in SubjectIds |-> Cardinality(c[sid])],
      gaps |-> Cardinality(ForcedGaps(c))] :
        c \in {col \in [SubjectIds -> SUBSET Periods] : LoadFreeDayConstraints(col)}}

\* the solver on the model without load variables: any assignment that
\* satisfies it, with the sum of its gap variables
SolveLoadFree ==
    /\ pc = "built"
    /\ \E cols \in {LoadFreeDayColumns} :
           \E g \in 0..NumGapVars :
             \E profile \in WeekProfiles(cols, DAYS, Need, g) :
               \E x \in WeekSchedules(cols, profile, DAYS) :
                 \E r \in RoomAssignments(x) :
                   /\ WeekConstraints(x, r)
                   /\ schedule_vars' = x
                   /\ room_assignment' = r
                   /\ objective_value' = g
    /\ solver_status' = "FEASIBLE"
    /\ pc' = "loadfree"
    /\ UNCHANGED <<input, MORNING_PERIODS_LIST, EVENING_PERIODS_LIST, result, stdout,
                   exit_code>>

\* both models on every input: any satisfying assignment of each
LoadFreeNext ==
    \/ Build
    \/ SolveFull
    \/ SolveLoadFree

LoadFreeSpec == Init /\ [][LoadFreeNext]_vars

\* sum(day_periods) of day d
LoadOf(x, d) == SumSeq([i \in DOMAIN Subjects |-> Cardinality(x[d][Subjects[i].id])])

====
